---- MODULE Spec2Model ----
(***************************************************************************)
(* A model of quick-pickle's reader (src/src/reader.rs): the opcode        *)
(* decoder Reader::read_event and the frame-parallel whole-stream decode   *)
(* Reader::par_collect_events.                                             *)
(*                                                                         *)
(* Representation.                                                         *)
(*  - A byte is a number 0..255, a byte source a sequence of bytes, a      *)
(*    Reader a record [data, off, pos]: the source, how many of its bytes  *)
(*    were consumed, and the field `pos`.                                  *)
(*  - A fixed-width integer is held as the two's-complement value of its   *)
(*    bit pattern (u32/u64/usize values at or above half their range are   *)
(*    the negative numbers with the same bits), so that a bit-preserving   *)
(*    `as` cast keeps the number and a sign-extending one keeps it too.    *)
(*    An f64 is held as the bit pattern of its eight big-endian bytes.     *)
(*  - An Event is <<tag, a, b>>; an Error is <<kind, code>>.               *)
(*  - A panic (unwinding out of the call) is the outcome "panic".          *)
(***************************************************************************)
EXTENDS Integers, Sequences, FiniteSets, TLC

(***************************************************************************)
(* The spawn threshold.  The source has 1024 * 128; the model scales it    *)
(* down so that frames on both sides of it fit the bounded byte streams.   *)
(* Its only use is the comparison `len >= FRAME_SPAWN_SIZE`.               *)
(***************************************************************************)
FRAME_SPAWN_SIZE == 2

NL == 10        \* b'\n'
CharL == 76     \* b'L'
Char0 == 48     \* b'0'
Char1 == 49     \* b'1'

NoEv == <<"none", 0, 0>>
NoErr == <<"none", 0>>
IoEof == <<"Io", 0>>                 \* Error::Io(UnexpectedEof)

Ok(ev, r, buf) == [st |-> "ok", ev |-> ev, err |-> NoErr, r |-> r, buf |-> buf]
Err(e, r, buf) == [st |-> "err", ev |-> NoEv, err |-> e, r |-> r, buf |-> buf]
Panic(r, buf) == [st |-> "panic", ev |-> NoEv, err |-> NoErr, r |-> r, buf |-> buf]

new(data) == [data |-> data, off |-> 0, pos |-> 0]
new_at(data, start) == [data |-> data, off |-> 0, pos |-> start]

Zeros(n) == [i \in 1..n |-> 0]

RECURSIVE LEUnsigned(_)
LEUnsigned(bs) == IF bs = <<>> THEN 0 ELSE Head(bs) + 256 * LEUnsigned(Tail(bs))

RECURSIVE LESigned(_)
LESigned(bs) ==
  IF Len(bs) = 1 THEN (IF bs[1] >= 128 THEN bs[1] - 256 ELSE bs[1])
  ELSE Head(bs) + 256 * LESigned(Tail(bs))

RECURSIVE Reverse(_)
Reverse(s) == IF s = <<>> THEN <<>> ELSE Append(Reverse(Tail(s)), Head(s))

BESigned(bs) == LESigned(Reverse(bs))

(***************************************************************************)
(* Style.  A value that is used more than once is passed to an operator    *)
(* as a parameter (`f(r) == f_with(g(r))`) instead of being named by a     *)
(* LET, which keeps the definitions small for TLC's coverage.              *)
(***************************************************************************)

(* self.reader.read_exact(&mut bytes)?; self.pos += n *)
read_exact(r, n) ==
  IF r.off + n <= Len(r.data)
  THEN [ok |-> TRUE, bytes |-> SubSeq(r.data, r.off + 1, r.off + n),
        r |-> [r EXCEPT !.off = @ + n, !.pos = @ + n]]
  ELSE [ok |-> FALSE, bytes |-> <<>>, r |-> r]

from_le_unsigned(x) == [ok |-> x.ok, v |-> IF x.ok THEN LEUnsigned(x.bytes) ELSE 0, r |-> x.r]
from_le_signed(x) == [ok |-> x.ok, v |-> IF x.ok THEN LESigned(x.bytes) ELSE 0, r |-> x.r]
from_be_signed(x) == [ok |-> x.ok, v |-> IF x.ok THEN BESigned(x.bytes) ELSE 0, r |-> x.r]

read_u8(r) == from_le_unsigned(read_exact(r, 1))
read_u16(r) == from_le_unsigned(read_exact(r, 2))
read_u32(r) == from_le_signed(read_exact(r, 4))
read_i32(r) == from_le_signed(read_exact(r, 4))
read_i64(r) == from_le_signed(read_exact(r, 8))
read_u64(r) == from_le_signed(read_exact(r, 8))
read_f64(r) == from_be_signed(read_exact(r, 8))

(***************************************************************************)
(* fill_buf: `len` is the usize argument.  A negative number is a usize at *)
(* or above 2^63: buf_len + len overflows or exceeds isize::MAX, and the   *)
(* resize (or the slice after a wrapped sum) panics.  When the source is   *)
(* short the buffer has already been resized; the content of the new tail  *)
(* is unspecified by read_exact and is zeros here.                         *)
(***************************************************************************)
(* fill_buf that reads into the buffer from its start *)
fill_buf_overwrite(x, r, len, buf) ==
  IF x.ok THEN [st |-> "ok", r |-> x.r, buf |-> x.bytes]
  ELSE [st |-> "err", r |-> r, buf |-> Zeros(len)]

fill_buf_with(x, r, len, buf) ==
  IF x.ok THEN [st |-> "ok", r |-> x.r, buf |-> buf \o x.bytes]
  ELSE [st |-> "err", r |-> r, buf |-> buf \o Zeros(len)]

fill_buf(r, len, buf) ==
  IF len < 0 THEN [st |-> "panic", r |-> r, buf |-> buf]
  ELSE fill_buf_with(read_exact(r, len), r, len, buf)

(***************************************************************************)
(* fill_line: BufRead::read_until(b'\n', buf) appends every byte up to and *)
(* including the delimiter, or up to the end of the source when there is   *)
(* no delimiter; the end of the source is not an error.                    *)
(***************************************************************************)
FirstNL(nls, dflt) == IF nls = {} THEN dflt ELSE CHOOSE i \in nls : \A j \in nls : i <= j

read_until(data, off) == FirstNL({i \in (off + 1)..Len(data) : data[i] = NL}, Len(data))

fill_line_to(r, buf, e) ==
  [len |-> e - r.off,
   r |-> [r EXCEPT !.off = e, !.pos = @ + (e - r.off)],
   buf |-> buf \o SubSeq(r.data, r.off + 1, e)]

fill_line(r, buf) == fill_line_to(r, buf, read_until(r.data, r.off))

(***************************************************************************)
(* atoi::atoi (crate atoi): the number written by the longest prefix of    *)
(* decimal digits; None when the prefix is empty or the number overflows   *)
(* the target type.  The sources of the model hold no sign byte.  The i64  *)
(* instance needs no overflow case: the digit strings of the model are far *)
(* below 2^63.                                                             *)
(***************************************************************************)
IsDigit(b) == b >= 48 /\ b <= 57

RECURSIVE AtoiFrom(_, _, _, _, _)
AtoiFrom(s, i, acc, used, checked) ==
  IF i > Len(s) \/ ~IsDigit(s[i])
  THEN [some |-> used > 0, v |-> acc]
  ELSE IF checked /\ acc > (2147483647 - (s[i] - 48)) \div 10
       THEN [some |-> FALSE, v |-> 0]
       ELSE AtoiFrom(s, i + 1, acc * 10 + (s[i] - 48), used + 1, checked)

atoi_i32(s) == AtoiFrom(s, 1, 0, 0, TRUE)
atoi_i64(s) == AtoiFrom(s, 1, 0, 0, FALSE)

(***************************************************************************)
(* from_utf8 and str::parse::<f64>.  The text bytes of the model are       *)
(* ASCII digits, 'L' and '\n'; over these f64's grammar accepts exactly    *)
(* the non-empty digit strings, and the value is the number written.       *)
(***************************************************************************)
from_utf8_ok(s) == \A i \in 1..Len(s) : s[i] < 128

parse_f64(s) ==
  IF s # <<>> /\ \A i \in 1..Len(s) : IsDigit(s[i])
  THEN atoi_i64(s)
  ELSE [some |-> FALSE, v |-> 0]

Drop(s, n) == SubSeq(s, n + 1, Len(s))
Truncate(buf, n) == IF Len(buf) > n THEN SubSeq(buf, 1, n) ELSE buf

(***************************************************************************)
(* read_event, opcode by opcode.  `r` is the reader after the opcode byte. *)
(***************************************************************************)

(* opcodes whose event carries no payload *)
PlainOps ==
  (\h28 :> "Mark") @@ (\h2e :> "Stop") @@ (\h30 :> "Pop") @@
  (\h31 :> "PopMark") @@ (\h32 :> "Dup") @@ (\h4e :> "None") @@
  (\h29 :> "EmptyTuple") @@ (\h74 :> "Tuple") @@ (\h85 :> "Tuple1") @@
  (\h86 :> "Tuple2") @@ (\h87 :> "Tuple3") @@ (\h5d :> "EmptyList") @@
  (\h6c :> "List") @@ (\h61 :> "Append") @@ (\h65 :> "Appends") @@
  (\h7d :> "EmptyDict") @@ (\h64 :> "Dict") @@ (\h73 :> "SetItem") @@
  (\h75 :> "SetItems") @@ (\h8f :> "EmptySet") @@ (\h90 :> "AdditItems") @@
  (\h91 :> "FrozenSet") @@ (\h94 :> "Memoize") @@ (\h93 :> "StackGlobal") @@
  (\h52 :> "Reduce") @@ (\h62 :> "Build") @@ (\h6f :> "Obj") @@
  (\h81 :> "NewObj") @@ (\h92 :> "NewObjEx") @@ (\h51 :> "BinPersId") @@
  (\h97 :> "NextBuffer") @@ (\h98 :> "ReadonlyBuffer")

(* opcodes followed by one fixed-width field: <<event, width in bytes>> *)
FixedOps ==
  (\h80 :> <<"Proto", 1>>) @@ (\h4a :> <<"BinInt", 4>>) @@
  (\h4b :> <<"BinInt1", 1>>) @@ (\h4d :> <<"BinInt2", 2>>) @@
  (\h47 :> <<"Float", 8>>) @@ (\h68 :> <<"BinGet", 1>>) @@
  (\h6a :> <<"LongBinGet", 4>>) @@ (\h71 :> <<"BinPut", 1>>) @@
  (\h72 :> <<"LongBinPut", 4>>) @@ (\h82 :> <<"Ext1", 1>>) @@
  (\h83 :> <<"Ext2", 2>>) @@ (\h84 :> <<"Ext4", 4>>) @@
  (\h95 :> <<"Frame", 8>>)

read_fixed(op, r) ==
  CASE op \in {\h80, \h4b, \h68, \h71, \h82} -> read_u8(r)
    [] op \in {\h4d, \h83} -> read_u16(r)
    [] op \in {\h4a, \h6a, \h72} -> read_i32(r)
    [] op = \h84 -> read_u32(r)
    [] op = \h47 -> read_f64(r)
    [] op = \h95 -> read_u64(r)

fixed_event(op, x, buf) ==
  IF x.ok THEN Ok(<<FixedOps[op][1], x.v, 0>>, x.r, buf) ELSE Err(IoEof, x.r, buf)

ev_fixed(op, r, buf) == fixed_event(op, read_fixed(op, r), buf)

(* a scratch line parsed: truncate and return the event, or return the error *)
scratch_event(start, r, buf, some, ev, code) ==
  IF some THEN Ok(ev, r, Truncate(buf, start)) ELSE Err(<<"Protocol", code>>, r, buf)

(* 0x49 INT: the event built from the bytes of the line, terminator included *)
int_or_bool(s, a) ==
  IF s = <<Char0, Char1>> THEN [some |-> TRUE, ev |-> <<"Bool", 1, 0>>]
  ELSE IF s = <<Char0, Char0>> THEN [some |-> TRUE, ev |-> <<"Bool", 0, 0>>]
  ELSE [some |-> a.some, ev |-> <<"Int", a.v, 0>>]

IntEvent(s) == int_or_bool(s, atoi_i32(s))

int_finish(start, fl, e) == scratch_event(start, fl.r, fl.buf, e.some, e.ev, \h49)
int_line(start, fl) == int_finish(start, fl, IntEvent(Drop(fl.buf, start)))
ev_INT(r, buf) == int_line(Len(buf), fill_line(r, buf))

(* 0x67 GET, 0x70 PUT *)
memo_finish(op, start, fl, a) ==
  scratch_event(start, fl.r, fl.buf, a.some, <<IF op = \h67 THEN "Get" ELSE "Put", a.v, 0>>, op)
memo_line(op, start, fl) == memo_finish(op, start, fl, atoi_i32(Drop(fl.buf, start)))
ev_memo(op, r, buf) == memo_line(op, Len(buf), fill_line(r, buf))

(* 0x4c LONG: `buf.last()` looks at the whole buffer; `&buf[start..]`     *)
(* panics when the pop took a byte from before `start`.                    *)
pop_L(b) == IF b # <<>> /\ b[Len(b)] = CharL THEN SubSeq(b, 1, Len(b) - 1) ELSE b

long_finish(start, r, b, a) == scratch_event(start, r, b, a.some, <<"Long", a.v, 0>>, \h4c)
long_popped(start, r, b) ==
  IF start > Len(b) THEN Panic(r, b) ELSE long_finish(start, r, b, atoi_i64(Drop(b, start)))
long_line(start, fl) == long_popped(start, fl.r, pop_L(fl.buf))
ev_LONG(r, buf) == long_line(Len(buf), fill_line(r, buf))

(* 0x8a LONG1, 0x8b LONG4 (whose error code is 0x8a too) *)
longn_finish(start, fb, a) ==
  scratch_event(start, fb.r, fb.buf, a.some, <<"Long", a.v, 0>>, \h8a)
longn_filled(start, fb) ==
  CASE fb.st = "panic" -> Panic(fb.r, fb.buf)
    [] fb.st = "err" -> Err(IoEof, fb.r, fb.buf)
    [] OTHER -> longn_finish(start, fb, atoi_i64(Drop(fb.buf, start)))
longn_len(start, n, buf) ==
  IF ~n.ok THEN Err(IoEof, n.r, buf) ELSE longn_filled(start, fill_buf(n.r, n.v, buf))
ev_LONGn(op, r, buf) ==
  longn_len(Len(buf), IF op = \h8a THEN read_u8(r) ELSE read_i32(r), buf)

(* 0x46 FLOAT *)
float_finish(start, fl, v) ==
  scratch_event(start, fl.r, fl.buf, v.some, <<"Float", v.v, 0>>, \h46)
float_line(start, fl) ==
  IF ~from_utf8_ok(Drop(fl.buf, start)) THEN Err(<<"Str", 0>>, fl.r, fl.buf)
  ELSE float_finish(start, fl, parse_f64(Drop(fl.buf, start)))
ev_FLOAT(r, buf) == float_line(Len(buf), fill_line(r, buf))

(* line-delimited payloads kept in the buffer: 0x53 STRING, 0x56 UNICODE, 0x50 PERSID *)
LineOps == (\h53 :> "String") @@ (\h56 :> "Unicode") @@ (\h50 :> "PersId")

line_event(op, fl) == Ok(<<LineOps[op], fl.len, 0>>, fl.r, fl.buf)
ev_line(op, r, buf) == line_event(op, fill_line(r, buf))

(* length-prefixed payloads kept in the buffer: <<event, width of the prefix>> *)
PrefixedOps ==
  (\h54 :> <<"BinString", 4>>) @@ (\h55 :> <<"ShortBinString", 1>>) @@
  (\h58 :> <<"BinUnicode", 4>>) @@ (\h8c :> <<"ShortBinUnicode", 1>>) @@
  (\h8d :> <<"BinUnicode8", 8>>) @@ (\h42 :> <<"BinBytes", 4>>) @@
  (\h43 :> <<"ShortBinBytes", 1>>) @@ (\h8e :> <<"BinBytes8", 8>>) @@
  (\h96 :> <<"ByteArray8", 8>>)

read_prefix(op, r) ==
  CASE op \in {\h55, \h8c, \h43} -> read_u8(r)
    [] op \in {\h54, \h58, \h42} -> read_i32(r)
    [] op = \h8d -> read_i64(r)
    [] op \in {\h8e, \h96} -> read_u64(r)

prefixed_filled(op, len, fb) ==
  CASE fb.st = "panic" -> Panic(fb.r, fb.buf)
    [] fb.st = "err" -> Err(IoEof, fb.r, fb.buf)
    [] OTHER -> Ok(<<PrefixedOps[op][1], len, 0>>, fb.r, fb.buf)
prefixed_len(op, n, buf) ==
  IF ~n.ok THEN Err(IoEof, n.r, buf) ELSE prefixed_filled(op, n.v, fill_buf(n.r, n.v, buf))
ev_prefixed(op, r, buf) == prefixed_len(op, read_prefix(op, r), buf)

(* 0x63 GLOBAL, 0x69 INST: two lines, module then name *)
two_lines_event(op, m, n) ==
  Ok(<<IF op = \h63 THEN "Global" ELSE "Inst", m.len, n.len>>, n.r, n.buf)
two_lines_second(op, m) == two_lines_event(op, m, fill_line(m.r, m.buf))
ev_two_lines(op, r, buf) == two_lines_second(op, fill_line(r, buf))

dispatch(op, r, buf) ==
  CASE op \in DOMAIN PlainOps -> Ok(<<PlainOps[op], 0, 0>>, r, buf)
    [] op = \h88 -> Ok(<<"Bool", 1, 0>>, r, buf)
    [] op = \h89 -> Ok(<<"Bool", 0, 0>>, r, buf)
    [] op \in DOMAIN FixedOps -> ev_fixed(op, r, buf)
    [] op = \h49 -> ev_INT(r, buf)
    [] op = \h4c -> ev_LONG(r, buf)
    [] op \in {\h8a, \h8b} -> ev_LONGn(op, r, buf)
    [] op = \h46 -> ev_FLOAT(r, buf)
    [] op \in DOMAIN LineOps -> ev_line(op, r, buf)
    [] op \in DOMAIN PrefixedOps -> ev_prefixed(op, r, buf)
    [] op \in {\h67, \h70} -> ev_memo(op, r, buf)
    [] op \in {\h63, \h69} -> ev_two_lines(op, r, buf)
    [] OTHER -> Err(<<"OpCode", op>>, r, buf)

(* the opcode byte: the end of the source here is a Stop, not an error *)
opcode_read(o, buf) ==
  IF ~o.ok THEN Ok(<<"Stop", 0, 0>>, o.r, buf) ELSE dispatch(o.v, o.r, buf)

read_event(r, buf) == opcode_read(read_u8(r), buf)

(***************************************************************************)
(* par_collect_events                                                      *)
(***************************************************************************)

(* `len >= FRAME_SPAWN_SIZE` on u64: a negative number is a u64 at or above 2^63 *)
spawns(len) == len < 0 \/ len >= FRAME_SPAWN_SIZE

(* frame_reader whose child starts at position 0, as Reader::new would *)
frame_reader_unseeded(start, fb) ==
  [st |-> fb.st, r |-> fb.r,
   child |-> IF fb.st = "ok" THEN new(fb.buf) ELSE new(<<>>)]

(* frame_reader: load len bytes into a fresh Vec and start a reader at self.pos *)
frame_reader_with(start, fb) ==
  [st |-> fb.st, r |-> fb.r,
   child |-> IF fb.st = "ok" THEN new_at(fb.buf, start) ELSE new_at(<<>>, start)]

frame_reader(r, len) == frame_reader_with(r.pos, fill_buf(r, len, <<>>))

(***************************************************************************)
(* One iteration of the main loop.  `par` is FALSE for the same loop with  *)
(* the threshold raised to infinity.  kind: "event" (pushed with self.pos),*)
(* "inline" (a Frame below the threshold: nothing), "spawn", "stop",       *)
(* "err" (the `?` returns), "panic".                                       *)
(***************************************************************************)
iter_base(x) ==
  [kind |-> "event", r |-> x.r, buf |-> <<>>, ev |-> x.ev,
   err |-> x.err, child |-> new(<<>>), len |-> 0]

iter_spawn(base, x, f) ==
  CASE f.st = "ok" -> [base EXCEPT !.kind = "spawn", !.r = f.r,
                                   !.child = f.child, !.len = x.ev[2]]
    [] f.st = "err" -> [base EXCEPT !.kind = "err", !.err = IoEof, !.buf = x.buf]
    [] OTHER -> [base EXCEPT !.kind = "panic", !.buf = x.buf]

iter_of(base, x, par) ==
  CASE x.st = "err" -> [base EXCEPT !.kind = "err", !.buf = x.buf]
    [] x.st = "panic" -> [base EXCEPT !.kind = "panic", !.buf = x.buf]
    [] x.st = "ok" /\ x.ev[1] = "Frame" ->
         IF par /\ spawns(x.ev[2])
         THEN iter_spawn(base, x, frame_reader(x.r, x.ev[2]))
         ELSE [base EXCEPT !.kind = "inline", !.len = x.ev[2]]
    [] x.st = "ok" /\ x.ev[1] = "Stop" -> [base EXCEPT !.kind = "stop", !.buf = x.buf]
    [] OTHER -> base

iter_event(x, par) == iter_of(iter_base(x), x, par)

main_iter(r, b, par) == iter_event(read_event(r, b), par)

(* events.sort_by_key(|(id, _)| *id): a stable sort, by insertion *)
RECURSIVE InsertByKey(_, _)
InsertByKey(sorted, e) ==
  IF sorted = <<>> THEN <<e>>
  ELSE IF sorted[Len(sorted)][1] <= e[1] THEN Append(sorted, e)
  ELSE Append(InsertByKey(SubSeq(sorted, 1, Len(sorted) - 1), e), sorted[Len(sorted)])

RECURSIVE sort_by_key(_)
sort_by_key(es) ==
  IF es = <<>> THEN <<>>
  ELSE InsertByKey(sort_by_key(SubSeq(es, 1, Len(es) - 1)), es[Len(es)])

(* events.into_iter().map(|(_, event)| event).collect() *)
strip(es) == [i \in 1..Len(es) |-> es[i][2]]

(***************************************************************************)
(* The inputs: byte streams built from at most MaxChunks chunks.           *)
(***************************************************************************)
MaxChunks == 5

Hdr(len) == <<\h95, len, 0, 0, 0, 0, 0, 0, 0>>     \* FRAME, u64 little-endian

ParChunks ==
  { <<\h4e>>,          \* NONE
    <<\h4b>>,          \* BININT1 without its byte: takes the next one
    <<\h2e>>,          \* STOP
    <<\h4b, 5>>,       \* BININT1 5
    Hdr(1),            \* a frame below the threshold
    Hdr(2),            \* a frame at the threshold
    Hdr(11) }          \* a frame that can hold a frame header and two bytes

RECURSIVE Streams(_, _)
Streams(chunks, n) ==
  IF n = 0 THEN {<<>>}
  ELSE {<<>>} \cup {c \o s : c \in chunks, s \in Streams(chunks, n - 1)}

ParStreams == Streams(ParChunks, MaxChunks)

VARIABLES
  stream,     \* the bytes of the source
  rd,         \* self: the main Reader
  buf,        \* the caller's buffer (par_collect_events: `buf`)
  events,     \* `events`: (position, event) pairs of the main thread
  threads,    \* `threads`: one record per spawned worker
  chan,       \* the channel: pairs sent and not yet received
  pc,         \* "loop", "join", "done" (par_collect_events returned); "re" for read_event calls
  joined,     \* how many workers the join loop has joined
  result,     \* what par_collect_events returned (`by`: the worker whose error it is,
              \* `recv`: the pairs received from the channel, in arrival order)
  mstarts,    \* history: the offsets at which the main loop read an opcode
  mframes,    \* history: the Frame events the main loop met
  last        \* history: the last read_event call of the read_event specification

vars == <<stream, rd, buf, events, threads, chan, pc, joined, result, mstarts, mframes, last>>

NoResult == [kind |-> "none", evs |-> <<>>, err |-> NoErr, by |-> 0, recv |-> <<>>]
NoCall == [op |-> -1, pre |-> <<>>, post |-> <<>>, off |-> 0, end |-> 0,
           st |-> "none", ev |-> NoEv, err |-> NoErr]

Init ==
  /\ stream \in ParStreams
  /\ rd = new(stream)
  /\ buf = <<>>
  /\ events = <<>>
  /\ threads = <<>>
  /\ chan = <<>>
  /\ pc = "loop"
  /\ joined = 0
  /\ result = NoResult
  /\ mstarts = <<>>
  /\ mframes = <<>>
  /\ last = NoCall

(* event => events.push((self.pos, event)); buf.clear() *)
MainEventOf(it) ==
  /\ pc = "loop" /\ it.kind = "event"
  /\ rd' = it.r /\ buf' = it.buf
  /\ events' = Append(events, <<it.r.pos, it.ev>>)
  /\ mstarts' = Append(mstarts, rd.pos)
  /\ UNCHANGED <<stream, threads, chan, pc, joined, result, mframes, last>>

MainEvent == MainEventOf(main_iter(rd, buf, TRUE))

(* Event::Frame(len) with len < FRAME_SPAWN_SIZE *)
MainFrameInlineOf(it) ==
  /\ pc = "loop" /\ it.kind = "inline"
  /\ rd' = it.r /\ buf' = it.buf
  /\ mstarts' = Append(mstarts, rd.pos)
  /\ mframes' = Append(mframes, [hend |-> it.r.pos, len |-> it.len,
                                 spawned |-> FALSE, k |-> Len(mstarts) + 1])
  /\ UNCHANGED <<stream, events, threads, chan, pc, joined, result, last>>

MainFrameInline == MainFrameInlineOf(main_iter(rd, buf, TRUE))

(* Event::Frame(len) with len >= FRAME_SPAWN_SIZE: frame_reader, thread::spawn *)
spawn(child, len) ==
  [r |-> child, fbuf |-> <<>>, st |-> "run", err |-> NoErr,
   start |-> child.pos, len |-> len, sent |-> <<>>]

MainFrameSpawnOf(it) ==
  /\ pc = "loop" /\ it.kind = "spawn"
  /\ rd' = it.r /\ buf' = it.buf
  /\ threads' = Append(threads, spawn(it.child, it.len))
  /\ mstarts' = Append(mstarts, rd.pos)
  /\ mframes' = Append(mframes, [hend |-> it.child.pos, len |-> it.len,
                                 spawned |-> TRUE, k |-> Len(mstarts) + 1])
  /\ UNCHANGED <<stream, events, chan, pc, joined, result, last>>

MainFrameSpawn == MainFrameSpawnOf(main_iter(rd, buf, TRUE))

(* Event::Stop => break; without threads the function returns at once *)
MainStopOf(it) ==
  /\ pc = "loop" /\ it.kind = "stop"
  /\ rd' = it.r /\ buf' = it.buf
  /\ mstarts' = Append(mstarts, rd.pos)
  /\ IF threads = <<>>
     THEN /\ pc' = "done"
          /\ result' = [NoResult EXCEPT !.kind = "ok", !.evs = strip(events)]
     ELSE /\ pc' = "join"
          /\ UNCHANGED result
  /\ UNCHANGED <<stream, events, threads, chan, joined, mframes, last>>

MainStop == MainStopOf(main_iter(rd, buf, TRUE))

(* read_event(..)? or frame_reader(..)? returns the error; rx is dropped *)
MainErrorOf(it) ==
  /\ pc = "loop" /\ it.kind \in {"err", "panic"}
  /\ rd' = it.r /\ buf' = it.buf
  /\ mstarts' = Append(mstarts, rd.pos)
  /\ pc' = "done"
  /\ result' = IF it.kind = "err"
               THEN [NoResult EXCEPT !.kind = "err", !.err = it.err]
               ELSE [NoResult EXCEPT !.kind = "panic"]
  /\ UNCHANGED <<stream, events, threads, chan, joined, mframes, last>>

MainError == MainErrorOf(main_iter(rd, buf, TRUE))

(***************************************************************************)
(* One iteration of a worker's loop.  Workers are detached threads: they   *)
(* keep running after par_collect_events returned, and then                *)
(* tx.send(..).unwrap() panics because the receiver is gone.               *)
(***************************************************************************)
worker_event(w, rx_alive, x) ==
  CASE x.st = "err" -> [w EXCEPT !.r = x.r, !.fbuf = x.buf, !.st = "err", !.err = x.err]
    [] x.st = "panic" -> [w EXCEPT !.r = x.r, !.fbuf = x.buf, !.st = "panic"]
    [] x.st = "ok" /\ x.ev[1] = "Stop" -> [w EXCEPT !.r = x.r, !.fbuf = x.buf, !.st = "ok"]
    [] OTHER -> IF rx_alive
                THEN [w EXCEPT !.r = x.r, !.fbuf = <<>>,
                               !.sent = Append(@, <<x.r.pos, x.ev>>)]
                ELSE [w EXCEPT !.r = x.r, !.fbuf = <<>>, !.st = "panic"]

worker_iter(w, rx_alive) == worker_event(w, rx_alive, read_event(w.r, w.fbuf))

WorkerStepTo(i, w) ==
  /\ threads[i].st = "run"
  /\ threads' = [threads EXCEPT ![i] = w]
  /\ chan' = IF Len(w.sent) > Len(threads[i].sent)
             THEN Append(chan, w.sent[Len(w.sent)]) ELSE chan
  /\ UNCHANGED <<stream, rd, buf, events, pc, joined, result, mstarts, mframes, last>>

WorkerStep(i) == WorkerStepTo(i, worker_iter(threads[i], pc # "done"))

(* th.join().unwrap()?  for the next thread, in spawn order *)
JoinOk ==
  /\ pc = "join" /\ joined < Len(threads)
  /\ threads[joined + 1].st = "ok"
  /\ joined' = joined + 1
  /\ UNCHANGED <<stream, rd, buf, events, threads, chan, pc, result, mstarts, mframes, last>>

JoinErr ==
  /\ pc = "join" /\ joined < Len(threads)
  /\ threads[joined + 1].st \in {"err", "panic"}
  /\ pc' = "done"
  /\ result' = IF threads[joined + 1].st = "err"
               THEN [NoResult EXCEPT !.kind = "err", !.err = threads[joined + 1].err,
                                     !.by = joined + 1]
               ELSE [NoResult EXCEPT !.kind = "panic", !.by = joined + 1]
  /\ UNCHANGED <<stream, rd, buf, events, threads, chan, joined, mstarts, mframes, last>>

(* Drain without the join loop before it *)
Drain_unjoined ==
  /\ pc = "join"
  /\ events' = sort_by_key(events \o chan)
  /\ chan' = <<>>
  /\ pc' = "done"
  /\ result' = [NoResult EXCEPT !.kind = "ok", !.evs = strip(events'), !.recv = chan]
  /\ UNCHANGED <<stream, rd, buf, threads, joined, mstarts, mframes, last>>

(* while let Ok(..) = rx.recv() { events.push(..) }; sort; return *)
Drain ==
  /\ pc = "join" /\ joined = Len(threads)
  /\ events' = sort_by_key(events \o chan)
  /\ chan' = <<>>
  /\ pc' = "done"
  /\ result' = [NoResult EXCEPT !.kind = "ok", !.evs = strip(events'), !.recv = chan]
  /\ UNCHANGED <<stream, rd, buf, threads, joined, mstarts, mframes, last>>

Workers == \E i \in 1..Len(threads) : WorkerStep(i)

Next ==
  \/ MainEvent
  \/ MainFrameInline
  \/ MainFrameSpawn
  \/ MainStop
  \/ MainError
  \/ Workers
  \/ JoinOk
  \/ JoinErr
  \/ Drain

Spec == Init /\ [][Next]_vars

(***************************************************************************)
(* Reference runs of par_collect_events, as functions of the stream.       *)
(*  - seq_collect: the same loop with the threshold raised to infinity.    *)
(*  - ref_collect: the parallel decode under one fixed schedule, in which  *)
(*    every worker runs to its end as soon as it is spawned.               *)
(***************************************************************************)
RECURSIVE seq_loop(_, _, _)
seq_step(it, evs) ==
  CASE it.kind = "event" -> seq_loop(it.r, it.buf, Append(evs, <<it.r.pos, it.ev>>))
    [] it.kind = "inline" -> seq_loop(it.r, it.buf, evs)
    [] it.kind = "stop" -> [NoResult EXCEPT !.kind = "ok", !.evs = strip(evs)]
    [] it.kind = "err" -> [NoResult EXCEPT !.kind = "err", !.err = it.err]
    [] OTHER -> [NoResult EXCEPT !.kind = "panic"]
seq_loop(r, b, evs) == seq_step(main_iter(r, b, FALSE), evs)
seq_collect(data) == seq_loop(new(data), <<>>, <<>>)

RECURSIVE worker_run(_)
worker_run(w) == IF w.st # "run" THEN w ELSE worker_run(worker_iter(w, TRUE))

RECURSIVE all_sent(_)
all_sent(ws) == IF ws = <<>> THEN <<>> ELSE ws[1].sent \o all_sent(Tail(ws))

FirstFailed(ws) == CHOOSE i \in 1..Len(ws) : ws[i].st # "ok" /\ \A j \in 1..(i - 1) : ws[j].st = "ok"

ref_finish(evs, ws) ==
  IF \A i \in 1..Len(ws) : ws[i].st = "ok"
  THEN [NoResult EXCEPT !.kind = "ok", !.evs = strip(sort_by_key(evs \o all_sent(ws)))]
  ELSE IF ws[FirstFailed(ws)].st = "err"
       THEN [NoResult EXCEPT !.kind = "err", !.err = ws[FirstFailed(ws)].err]
       ELSE [NoResult EXCEPT !.kind = "panic"]

RECURSIVE ref_loop(_, _, _, _)
ref_step(it, evs, ws) ==
  CASE it.kind = "event" -> ref_loop(it.r, it.buf, Append(evs, <<it.r.pos, it.ev>>), ws)
    [] it.kind = "inline" -> ref_loop(it.r, it.buf, evs, ws)
    [] it.kind = "spawn" ->
         ref_loop(it.r, it.buf, evs, Append(ws, worker_run(spawn(it.child, it.len))))
    [] it.kind = "stop" -> ref_finish(evs, ws)
    [] it.kind = "err" -> [NoResult EXCEPT !.kind = "err", !.err = it.err]
    [] OTHER -> [NoResult EXCEPT !.kind = "panic"]
ref_loop(r, b, evs, ws) == ref_step(main_iter(r, b, TRUE), evs, ws)
ref_collect(data) == ref_loop(new(data), <<>>, <<>>, <<>>)

Returned == pc = "done"
ReturnedOk == pc = "done" /\ result.kind = "ok"
SameOutcome(a, b) == a.kind = b.kind /\ (a.kind = "ok" => a.evs = b.evs)

(* The pairs produced so far: by the main thread, and sent by the workers. *)
(* After the drain `events` holds both.                                    *)
Drained == ReturnedOk /\ threads # <<>>
Produced == IF Drained THEN events ELSE events \o all_sent(threads)
Positions(es) == {es[i][1] : i \in 1..Len(es)}
InSeq(e, es) == \E k \in 1..Len(es) : es[k] = e
Increasing(es) == \A i \in 1..(Len(es) - 1) : es[i][1] < es[i + 1][1]

(***************************************************************************)
(* C1.  Parallel/sequential equivalence: for every stream, the result of   *)
(* par_collect_events equals the result of the same loop with the          *)
(* threshold raised to infinity: both succeed with equal sequences, or     *)
(* both fail.                                                              *)
(***************************************************************************)
C1_ParEqualsSequential == Returned => SameOutcome(result, seq_collect(stream))

(***************************************************************************)
(* C2.  A returned sequence holds no Frame and no Stop event, and it is    *)
(* the other events in stream order: every pair decoded by the main thread *)
(* or by a worker, in increasing position.                                 *)
(***************************************************************************)
C2_NoFrameNoStop ==
  ReturnedOk =>
    /\ \A i \in 1..Len(result.evs) : result.evs[i][1] \notin {"Frame", "Stop"}
    /\ Increasing(events)
    /\ result.evs = strip(events)
    /\ \A k \in 1..Len(all_sent(threads)) : InSeq(all_sent(threads)[k], events)

(***************************************************************************)
(* C3 as claimed.  When a worker's decode failed, the function returned an *)
(* error, and that error is a worker's.                                    *)
(***************************************************************************)
WorkerFailed == \E i \in 1..Len(threads) : threads[i].st = "err"

StartsAfter(f) == {mstarts[i] : i \in (f.k + 1)..Len(mstarts)}
Resynchronised(f) ==
  (\E p \in StartsAfter(f) : p >= f.hend + f.len) => (f.hend + f.len) \in StartsAfter(f)

C9_FrameLengthAuthoritative == \A i \in 1..Len(mframes) : Resynchronised(mframes[i])

(***************************************************************************)
(* C10.  Deterministic reassembly: the positions of all pairs produced by  *)
(* the main thread and the workers are pairwise distinct, each worker's    *)
(* positions lie inside its frame's byte range, the ranges of different    *)
(* workers are disjoint, and the returned result is the same whatever the  *)
(* interleaving: it is the result of the fixed schedule ref_collect.       *)
(***************************************************************************)
InOwnFrame(w) == \A k \in 1..Len(w.sent) : w.start < w.sent[k][1] /\ w.sent[k][1] <= w.start + w.len

C10_DeterministicReassembly ==
  /\ Cardinality(Positions(Produced)) = Len(Produced)
  /\ \A i \in 1..Len(threads) : InOwnFrame(threads[i])
  /\ \A i \in 1..Len(threads) : \A j \in (i + 1)..Len(threads) :
       threads[i].start + threads[i].len <= threads[j].start
  /\ Returned => SameOutcome(result, ref_collect(stream))
  /\ Drained => Increasing(events)

(* two workers finished, and their pairs arrived out of stream order *)
C10_Witness ==
  /\ Drained /\ Len(threads) >= 2
  /\ \E i \in 1..Len(result.recv) : \E j \in (i + 1)..Len(result.recv) :
       result.recv[i][1] > result.recv[j][1]
  /\ \E i \in 1..Len(events) : events[i] \notin {result.recv[k] : k \in 1..Len(result.recv)}

(***************************************************************************)
(* C11: whenever par_collect_events has returned, with a sequence or with  *)
(* an error, every worker it spawned has finished, so that no worker sends *)
(* on the channel after the receiver was dropped.                          *)
(***************************************************************************)
StillRunning(i) == threads[i].st = "run"

C11_WorkersFinishedAtReturn ==
  Returned => \A i \in 1..Len(threads) : ~StillRunning(i)

(***************************************************************************)
(* read_event called by a caller that owns the buffer (as the tests do):   *)
(* the second specification.  A source is one opcode byte, the encoding of *)
(* its fixed-width field or length prefix when it has one, and a text; or  *)
(* an opcode and a cut field; or nothing.  The bytes after the first event *)
(* are decoded by the next calls.                                          *)
(***************************************************************************)
MaxText == 3      \* bytes of text after the opcode and its field
MaxLen == 3       \* the largest value written in a field
MaxPre == 1       \* bytes in the buffer before the first call

TextBytes == {Char0, Char1, CharL, NL}

RECURSIVE SeqsUpTo(_, _)
SeqsUpTo(bytes, n) ==
  IF n = 0 THEN {<<>>}
  ELSE {<<>>} \cup {<<b>> \o t : b \in bytes, t \in SeqsUpTo(bytes, n - 1)}

Texts == SeqsUpTo(TextBytes, MaxText)
PreBufs == SeqsUpTo({CharL, 55}, MaxPre)

LongnOps == (\h8a :> 1) @@ (\h8b :> 4)       \* LONG1, LONG4: width of the prefix

FieldOps == DOMAIN FixedOps \cup DOMAIN PrefixedOps \cup DOMAIN LongnOps
FieldWidth(op) ==
  CASE op \in DOMAIN FixedOps -> FixedOps[op][2]
    [] op \in DOMAIN PrefixedOps -> PrefixedOps[op][2]
    [] op \in DOMAIN LongnOps -> LongnOps[op]
    [] OTHER -> 0

AllOps ==
  DOMAIN PlainOps \cup FieldOps \cup DOMAIN LineOps
    \cup {\h88, \h89, \h49, \h4c, \h46, \h67, \h70, \h63, \h69}
    \cup {\hff}                                 \* not an opcode

(* n in two's complement on w bytes, little-endian (big-endian for BINFLOAT) *)
EncLE(n, w) == [i \in 1..w |-> IF n < 0 THEN 255 ELSE IF i = 1 THEN n ELSE 0]
Enc(op, n) ==
  IF op = \h47 THEN Reverse(EncLE(n, 8)) ELSE EncLE(n, FieldWidth(op))

FieldVals(op) == IF FieldWidth(op) > 1 THEN -1..MaxLen ELSE 0..MaxLen

REStreams ==
  {<<>>}
  \cup {<<op>> \o t : op \in AllOps \ FieldOps, t \in Texts}
  \cup UNION {{<<op>> \o Enc(op, n) \o t : n \in FieldVals(op), t \in Texts} : op \in FieldOps}
  \cup UNION {{<<op>> \o SubSeq(Enc(op, 1), 1, k) : k \in 0..(FieldWidth(op) - 1)} :
              op \in FieldOps}

InitRE ==
  /\ stream \in REStreams
  /\ rd = new(stream)
  /\ buf \in PreBufs
  /\ events = <<>>
  /\ threads = <<>>
  /\ chan = <<>>
  /\ pc = "re"
  /\ joined = 0
  /\ result = NoResult
  /\ mstarts = <<>>
  /\ mframes = <<>>
  /\ last = NoCall

(* The caller calls again after an event other than Stop, and may after a  *)
(* parse error; after a failed read the source's cursor is unspecified.    *)
MayCall ==
  /\ pc = "re"
  /\ last.st \in {"none", "ok", "err"}
  /\ last.ev[1] # "Stop"
  /\ last.err[1] # "Io"

RECallOf(x) ==
  /\ MayCall
  /\ rd' = x.r
  /\ buf' = x.buf
  /\ last' = [op |-> IF rd.off < Len(stream) THEN stream[rd.off + 1] ELSE -1,
              pre |-> buf, post |-> x.buf, off |-> rd.off, end |-> x.r.off,
              st |-> x.st, ev |-> x.ev, err |-> x.err]
  /\ UNCHANGED <<stream, events, threads, chan, pc, joined, result, mstarts, mframes>>

RECall == RECallOf(read_event(rd, buf))

(* buf.clear() between two calls *)
REClear ==
  /\ MayCall
  /\ buf # <<>>
  /\ buf' = <<>>
  /\ UNCHANGED <<stream, rd, events, threads, chan, pc, joined, result, mstarts, mframes, last>>

NextRE ==
  \/ RECall
  \/ REClear

SpecRE == InitRE /\ [][NextRE]_vars

(***************************************************************************)
(* The last call of read_event, read back from the source's bytes.         *)
(***************************************************************************)
CallMade == pc = "re" /\ last.st # "none"
After == Len(stream) - (last.off + 1)               \* bytes after the opcode byte
Width == FieldWidth(last.op)
FieldBytes == SubSeq(stream, last.off + 2, last.off + 1 + Width)
Declared == IF Width = 1 THEN FieldBytes[1] ELSE LESigned(FieldBytes)
NLsAfter == Cardinality({i \in (last.off + 2)..Len(stream) : stream[i] = NL})
Consumed == SubSeq(stream, last.off + 2 + Width, last.end)   \* after opcode and field

ScratchLineOps == {\h49, \h4c, \h46, \h67, \h70}    \* INT LONG FLOAT GET PUT
ScratchOps == ScratchLineOps \cup DOMAIN LongnOps
DecimalOps == {\h49, \h4c, \h67, \h70} \cup DOMAIN LongnOps
StringOps == {\h53, \h56} \cup DOMAIN PrefixedOps
TwoLineOps == {\h63, \h69}

(* the source ends after the opcode byte and before its payload is complete *)
PayloadCut ==
  \/ last.op \in FieldOps /\ After < Width
  \/ /\ last.op \in DOMAIN PrefixedOps \cup DOMAIN LongnOps
     /\ After >= Width /\ Declared >= 0 /\ After - Width < Declared
  \/ last.op \in ScratchLineOps \cup DOMAIN LineOps /\ NLsAfter = 0
  \/ last.op \in TwoLineOps /\ NLsAfter < 2

(***************************************************************************)
(* C4.  End of input: where the next opcode byte is expected, read_event   *)
(* returns Stop and no error; after an opcode byte and before the end of   *)
(* its payload (fixed-width bytes, length-prefixed bytes, or a line not    *)
(* yet terminated), it returns an I/O error.                               *)
(***************************************************************************)
C4_EofHandling ==
  CallMade =>
    /\ last.off = Len(stream) => (last.st = "ok" /\ last.ev = <<"Stop", 0, 0>>)
    /\ (last.off < Len(stream) /\ PayloadCut) => (last.st = "err" /\ last.err = IoEof)

(***************************************************************************)
(* C5.  Decimal text: INT, LONG, GET, PUT, LONG1 and LONG4 return an event *)
(* only when the payload, without its line terminator and (LONG) without   *)
(* one trailing 'L', is entirely a decimal numeral.                        *)
(***************************************************************************)
Numeral(s) == s # <<>> /\ \A i \in 1..Len(s) : IsDigit(s[i])
ChopLast(s, b) == IF s # <<>> /\ s[Len(s)] = b THEN SubSeq(s, 1, Len(s) - 1) ELSE s
DecimalPayload ==
  CASE last.op = \h4c -> ChopLast(ChopLast(Consumed, NL), CharL)
    [] last.op \in DOMAIN LongnOps -> Consumed
    [] OTHER -> ChopLast(Consumed, NL)

C5_NonNumericIsError ==
  (CallMade /\ last.op \in DecimalOps /\ last.st = "ok") => Numeral(DecimalPayload)

(***************************************************************************)
(* C6.  INT followed by the line "01\n" returns Bool(true), and followed   *)
(* by the line "00\n" returns Bool(false).                                 *)
(***************************************************************************)
LineIs(s) == After >= Len(s) /\ SubSeq(stream, last.off + 2, last.off + 1 + Len(s)) = s

C6_BoolLiterals ==
  (CallMade /\ last.op = \h49) =>
    /\ LineIs(<<Char0, Char1, NL>>) => (last.st = "ok" /\ last.ev = <<"Bool", 1, 0>>)
    /\ LineIs(<<Char0, Char0, NL>>) => (last.st = "ok" /\ last.ev = <<"Bool", 0, 0>>)

(***************************************************************************)
(* C7.  Scratch use leaves no trace: a call that decodes INT, LONG, LONG1, *)
(* LONG4, FLOAT, GET or PUT and returns an event or a parse error leaves   *)
(* the buffer as it was before the call.                                   *)
(***************************************************************************)
ParseError == last.st = "err" /\ last.err[1] \in {"Protocol", "Str"}

C7_ScratchNoTrace ==
  (CallMade /\ last.op \in ScratchOps /\ (last.st = "ok" \/ ParseError)) =>
    last.post = last.pre

(***************************************************************************)
(* C8.  String and bytes opcodes: when the event is returned the buffer is *)
(* its content before the call followed by exactly the payload bytes read  *)
(* from the source, and the event's len is the number of bytes appended:   *)
(* the payload is the last len bytes of the buffer.                        *)
(***************************************************************************)
C8_PayloadAppended ==
  (CallMade /\ last.op \in StringOps /\ last.st = "ok") =>
    /\ last.post = last.pre \o Consumed
    /\ last.ev[2] = Len(last.post) - Len(last.pre)
    /\ last.ev[2] = Len(Consumed)
    /\ last.ev[1] = (IF last.op \in DOMAIN LineOps THEN LineOps[last.op]
                     ELSE PrefixedOps[last.op][1])

C8_Witness ==
  /\ CallMade /\ last.op \in DOMAIN PrefixedOps /\ last.st = "ok"
  /\ last.ev[2] >= 2 /\ last.pre # <<>>

(***************************************************************************)
(* C12: read_event is total: for every source and every initial content of *)
(* the caller's buffer a call returns an event or an error and never       *)
(* panics, a negative 4- or 8-byte signed length prefix and a LONG with an *)
(* empty line after a buffer ending in 'L' included.                       *)
(***************************************************************************)
C12_ReadEventTotal == CallMade => last.st \in {"ok", "err"}

====
